---- MODULE Spec2Model ----
(***************************************************************************)
(* Model of romshark/eventlog-example: a producer and a consumer service   *)
(* that each project one shared append-only event log onto a local         *)
(* transactional key-value database (badger), and a producer that appends  *)
(* "take" events under optimistic concurrency control.                     *)
(*                                                                         *)
(* The event log assigns version i to its i-th event; "0" is the version   *)
(* of the empty log and "" is the projection version of a database that    *)
(* has never been synchronized.                                            *)
(***************************************************************************)
EXTENDS Integers, Sequences, FiniteSets, TLC

\* ------------------------------------------------------------------ bounds
MaxLog == 3
MaxQty == 2
\* The length of the log up to which the command line issues requests in SpecLive.
MaxLiveLog == 2

\* --------------------------------------------------------------- constants
\* client.Version "" : no projection version stored (GetProjectionVersion).
NoVersion == -1
\* client.Version "0" : the version of an empty log (sv == "0").
VersionEmptyLog == 0

Producers == {"p1", "p2"}
Consumers == {"c1"}
Services == Producers \cup Consumers
Objects == {"apple"}
\* The numbers the command line parses (parseInput accepts a sign) and the
\* quantities of the events of a log.
Quantities == -1..MaxQty
EventQuantities == 0..MaxQty
\* Keys of the database: "version" and one "o_<object>" per object.
VersionKey == "version"
\* The default of the flag -db-dir: database.Open creates an in-memory
\* database.
InMemory == ""

VARIABLES
    log,        \* the event log: sequence of client.Event (Label, PayloadJSON)
    notify,     \* per service: change notifications not yet handled by Listen
    phase,      \* per service: "off", Run at "startup" or "listening", "crashed"
                \* when Run failed, "exited" when the command line ended the process
    lpc,        \* per service: position of Run's current Sync pass
    ltx,        \* per service: the transaction of Run's current Sync pass
    dbVersion,  \* per service: committed value of key "version"
    dbObjects,  \* per service: committed object keys and their quantities
    tpc,        \* per producer: position of Take
    ttx,        \* per producer: the transaction of Take
    take,       \* per producer: arguments and locals of Take
    pass,       \* per service: locals of Run's current Sync pass
    printed,    \* the error lines the last step wrote to the loggers lApp and lDB
    call,       \* a call of a function on its own: name, arguments and result
    dbDir       \* per service: the flag -db-dir, "" for the in-memory database

vars == <<log, notify, phase, lpc, ltx, dbVersion, dbObjects,
          tpc, ttx, take, pass, printed, call, dbDir>>

\* ------------------------------------------------------------ event codec
\* event.Encode: the operation becomes the label, object and quantity the
\* JSON payload; unknown operations are rejected.
Encode(i) ==
    IF i.Operation \in {"put", "take"}
    THEN [err |-> "", Label |-> i.Operation,
          PayloadJSON |-> [object |-> i.Object, quantity |-> i.Quantity]]
    ELSE [err |-> "unknown event type", Label |-> "",
          PayloadJSON |-> [object |-> "", quantity |-> 0]]

\* Mutant of Decode: every label is taken for the operation.
DecodeAnyLabel(i) ==
    [err |-> "", Operation |-> i.Label,
     Object |-> i.PayloadJSON.object, Quantity |-> i.PayloadJSON.quantity]

\* event.Decode: the label becomes the operation, the payload is unmarshalled.
Decode(i) ==
    IF i.Label \in {"put", "take"}
    THEN [err |-> "", Operation |-> i.Label,
          Object |-> i.PayloadJSON.object, Quantity |-> i.PayloadJSON.quantity]
    ELSE [err |-> "unknown event type", Operation |-> "", Object |-> "", Quantity |-> 0]

\* ValidateInput of the producer.
ValidateInput(object, quantity) == object # "" /\ quantity >= 0

\* -------------------------------------------------------------- event log
\* The version of the latest event of the log ("0" when the log is empty).
LogVersion(l) == IF Len(l) = 0 THEN VersionEmptyLog ELSE Len(l)

\* client.VersionInitial: the version of the first event, "0" for an empty log.
VersionInitial(l) == IF Len(l) = 0 THEN VersionEmptyLog ELSE 1

\* client.AppendCheck: accepts iff the assumed version is the log's version.
AppendCheckOK(l, assumedVersion) == assumedVersion = LogVersion(l)

\* ------------------------------------------------------------ transactions
\* A database without object keys.
NoObjects == [o \in {} |-> 0]

NoTx == [version |-> NoVersion, objects |-> NoObjects, reads |-> {}, writes |-> {},
         stale |-> {}]

\* badger NewTransaction: a snapshot of the committed state.
NewTransaction(s) ==
    [version |-> dbVersion[s], objects |-> dbObjects[s], reads |-> {},
     writes |-> {}, stale |-> {}]

\* Tx.GetProjectionVersion: "" when the key is not found.
GetProjectionVersion(t) == t.version
ReadVersion(t) == [t EXCEPT !.reads = @ \cup {VersionKey}]

\* Tx.GetQuantity: 0 when the key is not found.
GetQuantity(t, object) ==
    IF object \in DOMAIN t.objects THEN t.objects[object] ELSE 0
ReadObject(t, object) == [t EXCEPT !.reads = @ \cup {object}]

\* Tx.Set
TxSet(t, object, num) ==
    [t EXCEPT !.objects = [o \in (DOMAIN t.objects) \cup {object} |->
                              IF o = object THEN num ELSE t.objects[o]],
              !.writes = @ \cup {object}]

\* Tx.Delete
TxDelete(t, object) ==
    [t EXCEPT !.objects = [o \in (DOMAIN t.objects) \ {object} |-> t.objects[o]],
              !.writes = @ \cup {object}]

\* Mutant of SetProjectionVersion: the version is not stored.
SetProjectionVersionDropped(t, version) == t

\* Tx.SetProjectionVersion
SetProjectionVersion(t, version) ==
    [t EXCEPT !.version = version, !.writes = @ \cup {VersionKey}]

\* badger Txn.Commit: a transaction without writes always commits; one with
\* writes fails with ErrConflict when a key it read was committed by another
\* transaction after it started.
CommitOK(t) == t.writes = {} \/ t.reads \cap t.stale = {}

\* Mutant of WithinTxCommits: the transaction is committed whatever fn returned.
WithinTxCommitsDespiteError(err, t) == CommitOK(t)

\* DB.WithinTx after fn returned err: the transaction is discarded when fn
\* failed and committed otherwise, which badger may refuse.
WithinTxCommits(err, t) == err = "" /\ CommitOK(t)

\* The committed value of key "version" after t committed.
CommittedVersion(s, t) ==
    IF VersionKey \in t.writes THEN t.version ELSE dbVersion[s]

\* The committed object keys after t committed: t's writes replace or delete.
CommittedObjects(s, t) ==
    [o \in ((DOMAIN dbObjects[s]) \ t.writes) \cup (t.writes \cap DOMAIN t.objects) |->
        IF o \in t.writes THEN t.objects[o] ELSE dbObjects[s][o]]

\* What another open transaction of the same database sees of t's commit:
\* the keys t wrote are newer than its snapshot.
Outdate(other, open, t) ==
    IF open THEN [other EXCEPT !.stale = @ \cup t.writes] ELSE other

\* ------------------------------------------------------------------- scan
\* The i-th event of the log as client.Scan delivers it.
EventAt(l, i) ==
    [Version |-> i, Label |-> l[i].Label, PayloadJSON |-> l[i].PayloadJSON]

\* Mutant of IgnoreCurrent: the event at the projection version is applied again.
IgnoreNothing(v, e) == FALSE

\* The check of the scan callbacks: the event at the projection version has
\* been applied by an earlier pass.
IgnoreCurrent(v, e) == v = e.Version

\* ---------------------------------------------------------------- consumer
\* The new quantity Consumer.apply computes from the label.
ConsumerNewQuantity(label, previousQuantity, quantity) ==
    IF label = "take" THEN previousQuantity - quantity
    ELSE IF label = "put" THEN previousQuantity + quantity
    ELSE 0

\* Mutant of ConsumerApply: the object is deleted below 0, a quantity of 0 is
\* stored.
ConsumerApplyStoresZero(t, e) ==
    LET event == Decode(e) IN
    IF event.err # "" THEN [tx |-> t, err |-> event.err]
    ELSE LET previousQuantity == GetQuantity(t, event.Object)
             t1 == ReadObject(t, event.Object)
             newQuantity ==
                 ConsumerNewQuantity(e.Label, previousQuantity, event.Quantity)
             t2 == IF newQuantity < 0 THEN TxDelete(t1, event.Object)
                   ELSE TxSet(t1, event.Object, newQuantity)
         IN [tx |-> SetProjectionVersion(t2, e.Version), err |-> ""]

\* Consumer.apply: decode, read, delete below 1 or set, then (deferred) store
\* the event's version as the projection version.
ConsumerApply(t, e) ==
    LET event == Decode(e) IN
    IF event.err # "" THEN [tx |-> t, err |-> event.err]
    ELSE LET previousQuantity == GetQuantity(t, event.Object)
             t1 == ReadObject(t, event.Object)
             newQuantity ==
                 ConsumerNewQuantity(e.Label, previousQuantity, event.Quantity)
             t2 == IF newQuantity < 1 THEN TxDelete(t1, event.Object)
                   ELSE TxSet(t1, event.Object, newQuantity)
         IN [tx |-> SetProjectionVersion(t2, e.Version), err |-> ""]

\* client.Scan(sv, false, onEvent) with Consumer.Sync's callback, from the
\* i-th event on: stops at the first error.
RECURSIVE ConsumerScan(_, _, _, _)
ConsumerScan(t, v, l, i) ==
    IF i > Len(l) THEN [tx |-> t, err |-> ""]
    ELSE LET e == EventAt(l, i) IN
         IF IgnoreCurrent(v, e) THEN ConsumerScan(t, v, l, i + 1)
         ELSE LET r == ConsumerApply(t, e) IN
              IF r.err # "" THEN r ELSE ConsumerScan(r.tx, v, l, i + 1)

\* Mutant of ConsumerSync: the first scanned event is taken for the boundary
\* event and skipped, also on a projection without a version.
ConsumerSyncSkipsFirst(t, l) ==
    LET v == GetProjectionVersion(t)
        t0 == ReadVersion(t)
        sv == IF v = NoVersion THEN VersionInitial(l) ELSE v
    IN IF sv = VersionEmptyLog THEN [tx |-> t0, err |-> ""]
       ELSE ConsumerScan(t0, v, l, sv + 1)

\* Mutant of ConsumerSync: the scan starts at the first event of the log
\* whatever the projection version.
ConsumerSyncFromStart(t, l) ==
    LET v == GetProjectionVersion(t)
        t0 == ReadVersion(t)
        sv == VersionInitial(l)
    IN IF sv = VersionEmptyLog THEN [tx |-> t0, err |-> ""]
       ELSE ConsumerScan(t0, v, l, sv)

\* Mutant of ConsumerSync: on an empty log the version of the empty log is
\* stored as the projection version.
ConsumerSyncStoresEmptyVersion(t, l) ==
    LET v == GetProjectionVersion(t)
        t0 == ReadVersion(t)
        sv == IF v = NoVersion THEN VersionInitial(l) ELSE v
    IN IF sv = VersionEmptyLog
       THEN [tx |-> SetProjectionVersion(t0, sv), err |-> ""]
       ELSE ConsumerScan(t0, v, l, sv)

\* The body of Consumer.Sync's transaction.
ConsumerSync(t, l) ==
    LET v == GetProjectionVersion(t)
        t0 == ReadVersion(t)
        sv == IF v = NoVersion THEN VersionInitial(l) ELSE v
    IN IF sv = VersionEmptyLog THEN [tx |-> t0, err |-> ""]
       ELSE ConsumerScan(t0, v, l, sv)

\* ---------------------------------------------------------------- producer
\* Mutant of ProducerNewQuantity: a take is added like a put.
ProducerNewQuantityAddsTake(label, previousQuantity, quantity) ==
    previousQuantity + quantity

\* The new quantity Producer.apply computes from the label.
ProducerNewQuantity(label, previousQuantity, quantity) ==
    IF label = "take" THEN previousQuantity - quantity
    ELSE IF label = "put" THEN previousQuantity + quantity
    ELSE 0

\* Producer.apply
ProducerApply(t, e) ==
    LET event == Decode(e) IN
    IF event.err # "" THEN [tx |-> t, err |-> event.err]
    ELSE LET previousQuantity == GetQuantity(t, event.Object)
             t1 == ReadObject(t, event.Object)
             newQuantity ==
                 ProducerNewQuantity(e.Label, previousQuantity, event.Quantity)
             t2 == IF newQuantity < 1 THEN TxDelete(t1, event.Object)
                   ELSE TxSet(t1, event.Object, newQuantity)
         IN [tx |-> SetProjectionVersion(t2, e.Version), err |-> ""]

\* client.Scan(sv, false, onEvent) with Producer.sync's callback, from the
\* i-th event on; latestVersion is the version of the last event applied.
RECURSIVE ProducerScan(_, _, _, _, _)
ProducerScan(t, v, l, i, latestVersion) ==
    IF i > Len(l) THEN [tx |-> t, latestVersion |-> latestVersion, err |-> ""]
    ELSE LET e == EventAt(l, i) IN
         IF IgnoreCurrent(v, e) THEN ProducerScan(t, v, l, i + 1, latestVersion)
         ELSE LET r == ProducerApply(t, e) IN
              IF r.err # ""
              THEN [tx |-> r.tx, latestVersion |-> latestVersion, err |-> r.err]
              ELSE ProducerScan(r.tx, v, l, i + 1, e.Version)

\* Mutant of ProducerSync: the pass reports the version of the log without
\* applying the events it scanned.
ProducerSyncWithoutApply(t, l) ==
    [tx |-> ReadVersion(t), latestVersion |-> LogVersion(l), err |-> ""]

\* Producer.sync: returns the version of the last event it applied, "0" when
\* the log is empty, and "" when it applied nothing.
ProducerSync(t, l) ==
    LET v == GetProjectionVersion(t)
        t0 == ReadVersion(t)
        sv == IF v = NoVersion THEN VersionInitial(l) ELSE v
    IN IF sv = VersionEmptyLog
       THEN [tx |-> t0, latestVersion |-> sv, err |-> ""]
       ELSE ProducerScan(t0, v, l, sv, NoVersion)

\* ------------------------------------------------------------------- state
\* Error lines of a step: the service, the logger ("APP" is lApp, "DB" is lDB,
\* which main discards unless -db-log is given) and the text.
NoLines == {}
Line(s, logger, text) == <<s, logger, text>>

NoCall == [fn |-> "", arg |-> <<>>, ret |-> <<>>]

NoPass == [v |-> NoVersion, latestVersion |-> NoVersion, err |-> ""]
NoTake == [object |-> "", quantity |-> 0, assumedVersion |-> NoVersion,
           appended |-> FALSE, resynced |-> FALSE, err |-> ""]

\* The state after the services in running were constructed (main): nothing
\* is synchronized yet, Run is about to start and the command line is open.
InitOf(running) ==
    /\ log = <<>>
    /\ notify = [s \in Services |-> 0]
    /\ phase = [s \in Services |-> IF s \in running THEN "startup" ELSE "off"]
    /\ lpc = [s \in Services |-> "idle"]
    /\ ltx = [s \in Services |-> NoTx]
    /\ dbVersion = [s \in Services |-> NoVersion]
    /\ dbObjects = [s \in Services |-> NoObjects]
    /\ tpc = [p \in Producers |-> "idle"]
    /\ ttx = [p \in Producers |-> NoTx]
    /\ take = [p \in Producers |-> NoTake]
    /\ pass = [s \in Services |-> NoPass]
    /\ printed = NoLines
    /\ call = NoCall
    /\ dbDir = [s \in Services |-> InMemory]

\* The deployment of the README: one producer and one consumer.
Init == InitOf({"p1", "c1"})

\* client.Append / a successful client.AppendCheck: the event gets the next
\* version and every subscribed listener is notified.
Appended(ev) ==
    /\ log' = Append(log, [Label |-> ev.Label, PayloadJSON |-> ev.PayloadJSON])
    /\ notify' = [s \in Services |->
                     IF phase[s] = "listening" THEN notify[s] + 1 ELSE notify[s]]

\* ----------------------------------------------------------------- Run
\* Mutant of RunAfterSync: Run listens whatever the startup Sync returned.
RunAfterSyncIgnoresError(ph, ok) ==
    IF ph = "startup" THEN "listening" ELSE ph

\* Run of both services after a Sync pass: an error of the startup pass is
\* returned before Listen is called, an error of a later pass ends only the
\* callback.
RunAfterSync(ph, ok) ==
    IF ph = "startup" THEN (IF ok THEN "listening" ELSE "crashed") ELSE ph

\* ---------------------------------------------------------- Consumer.Run
\* Consumer.Run calls Sync before it listens: WithinTx opens the transaction.
ConsumerRunSync(c) ==
    /\ phase[c] = "startup" /\ lpc[c] = "idle"
    /\ lpc' = [lpc EXCEPT ![c] = "begun"]
    /\ ltx' = [ltx EXCEPT ![c] = NewTransaction(c)]
    /\ pass' = [pass EXCEPT ![c] = [NoPass EXCEPT !.v = dbVersion[c]]]
    /\ UNCHANGED <<log, notify, phase, dbVersion, dbObjects, tpc, ttx, take>>
    /\ printed' = NoLines
    /\ UNCHANGED <<call, dbDir>>

\* The Listen callback of Consumer.Run: one notification, one Sync pass.
ConsumerOnUpdate(c) ==
    /\ phase[c] = "listening" /\ lpc[c] = "idle" /\ notify[c] > 0
    /\ notify' = [notify EXCEPT ![c] = @ - 1]
    /\ lpc' = [lpc EXCEPT ![c] = "begun"]
    /\ ltx' = [ltx EXCEPT ![c] = NewTransaction(c)]
    /\ pass' = [pass EXCEPT ![c] = [NoPass EXCEPT !.v = dbVersion[c]]]
    /\ UNCHANGED <<log, phase, dbVersion, dbObjects, tpc, ttx, take>>
    /\ printed' = NoLines
    /\ UNCHANGED <<call, dbDir>>

\* Consumer.Sync inside its transaction: read the version, scan, apply.
ConsumerSyncScan(c) ==
    /\ lpc[c] = "begun"
    /\ LET r == ConsumerSync(ltx[c], log) IN
        /\ ltx' = [ltx EXCEPT ![c] = r.tx]
        /\ pass' = [pass EXCEPT ![c].err = r.err]
    /\ lpc' = [lpc EXCEPT ![c] = "scanned"]
    /\ UNCHANGED <<log, notify, phase, dbVersion, dbObjects, tpc, ttx, take>>
    /\ printed' = NoLines
    /\ UNCHANGED <<call, dbDir>>

\* The end of DB.WithinTx for Consumer.Sync: commit when fn returned nil,
\* discard otherwise; a failed startup pass ends Run, a failed later pass
\* only ends the callback.
ConsumerWithinTxEnd(c, ok) ==
    /\ lpc[c] = "scanned"
    /\ dbVersion' = [dbVersion EXCEPT ![c] =
                         IF ok THEN CommittedVersion(c, ltx[c]) ELSE @]
    /\ dbObjects' = [dbObjects EXCEPT ![c] =
                         IF ok THEN CommittedObjects(c, ltx[c]) ELSE @]
    /\ phase' = [phase EXCEPT ![c] = RunAfterSync(@, ok)]
    /\ lpc' = [lpc EXCEPT ![c] = "idle"]
    /\ ltx' = [ltx EXCEPT ![c] = NoTx]
    /\ pass' = [pass EXCEPT ![c] = NoPass]
    /\ UNCHANGED <<log, notify, tpc, ttx, take>>
    /\ printed' =
           (IF pass[c].err # "" THEN {Line(c, "DB", "discarded")} ELSE NoLines)
           \cup (IF phase[c] = "startup" /\ ~ok
                 THEN {Line(c, "APP", "running consumer: synchronizing")}
                 ELSE NoLines)
    /\ UNCHANGED <<call, dbDir>>

ConsumerSyncEnd(c) ==
    ConsumerWithinTxEnd(c, WithinTxCommits(pass[c].err, ltx[c]))

\* ---------------------------------------------------------- Producer.Run
\* Producer.Run calls Sync(ctx, nil) before it listens.
ProducerRunSync(p) ==
    /\ phase[p] = "startup" /\ lpc[p] = "idle"
    /\ lpc' = [lpc EXCEPT ![p] = "begun"]
    /\ ltx' = [ltx EXCEPT ![p] = NewTransaction(p)]
    /\ pass' = [pass EXCEPT ![p] = [NoPass EXCEPT !.v = dbVersion[p]]]
    /\ UNCHANGED <<log, notify, phase, dbVersion, dbObjects, tpc, ttx, take>>
    /\ printed' = NoLines
    /\ UNCHANGED <<call, dbDir>>

\* The Listen callback of Producer.Run: one notification, one Sync(ctx, nil).
ProducerOnUpdate(p) ==
    /\ phase[p] = "listening" /\ lpc[p] = "idle" /\ notify[p] > 0
    /\ notify' = [notify EXCEPT ![p] = @ - 1]
    /\ lpc' = [lpc EXCEPT ![p] = "begun"]
    /\ ltx' = [ltx EXCEPT ![p] = NewTransaction(p)]
    /\ pass' = [pass EXCEPT ![p] = [NoPass EXCEPT !.v = dbVersion[p]]]
    /\ UNCHANGED <<log, phase, dbVersion, dbObjects, tpc, ttx, take>>
    /\ printed' = NoLines
    /\ UNCHANGED <<call, dbDir>>

\* Producer.sync inside the transaction Producer.Sync opened.
ProducerSyncScan(p) ==
    /\ lpc[p] = "begun"
    /\ LET r == ProducerSync(ltx[p], log) IN
        /\ ltx' = [ltx EXCEPT ![p] = r.tx]
        /\ pass' = [pass EXCEPT ![p].latestVersion = r.latestVersion,
                                ![p].err = r.err]
    /\ lpc' = [lpc EXCEPT ![p] = "scanned"]
    /\ UNCHANGED <<log, notify, phase, dbVersion, dbObjects, tpc, ttx, take>>
    /\ printed' = NoLines
    /\ UNCHANGED <<call, dbDir>>

\* The end of DB.WithinTx for Producer.Sync(ctx, nil). A failed startup pass
\* ends Run and, with it, the process (lApp.Fatalf).
ProducerWithinTxEnd(p, ok) ==
    /\ lpc[p] = "scanned"
    /\ LET fatal == phase[p] = "startup" /\ ~ok IN
        /\ dbVersion' = [dbVersion EXCEPT ![p] =
                             IF ok THEN CommittedVersion(p, ltx[p]) ELSE @]
        /\ dbObjects' = [dbObjects EXCEPT ![p] =
                             IF ok THEN CommittedObjects(p, ltx[p]) ELSE @]
        /\ phase' = [phase EXCEPT ![p] = RunAfterSync(@, ok)]
        /\ ttx' = [ttx EXCEPT ![p] =
                       IF fatal THEN NoTx
                       ELSE IF ok THEN Outdate(@, tpc[p] # "idle", ltx[p]) ELSE @]
        /\ tpc' = [tpc EXCEPT ![p] = IF fatal THEN "idle" ELSE @]
        /\ take' = [take EXCEPT ![p] = IF fatal THEN NoTake ELSE @]
        /\ printed' =
               (IF pass[p].err # "" THEN {Line(p, "DB", "discarded")} ELSE NoLines)
               \cup (IF fatal
                     THEN {Line(p, "APP", "running producer: synchronizing")}
                     ELSE NoLines)
    /\ lpc' = [lpc EXCEPT ![p] = "idle"]
    /\ ltx' = [ltx EXCEPT ![p] = NoTx]
    /\ pass' = [pass EXCEPT ![p] = NoPass]
    /\ UNCHANGED <<log, notify>>
    /\ UNCHANGED <<call, dbDir>>

ProducerSyncEnd(p) ==
    ProducerWithinTxEnd(p, WithinTxCommits(pass[p].err, ltx[p]))

\* ------------------------------------------------------------ command line
\* An error a command returns ends cli.ScanLines and main ends the process
\* with lApp.Fatalf: Run and its open pass end with it.
Fatalf(p) ==
    /\ phase' = [phase EXCEPT ![p] = "exited"]
    /\ lpc' = [lpc EXCEPT ![p] = "idle"]
    /\ ltx' = [ltx EXCEPT ![p] = NoTx]
    /\ pass' = [pass EXCEPT ![p] = NoPass]

\* ---------------------------------------------------------- Producer.Put
\* Mutant of Put: the event is appended only on a projection that is at the
\* head of the log, an outdated projection is an error.
PutIfCurrent(p, object, quantity) ==
    /\ phase[p] \in {"startup", "listening"} /\ tpc[p] = "idle"
    /\ Len(log) < MaxLog
    /\ LET ev == Encode([Operation |-> "put", Object |-> object,
                         Quantity |-> quantity]) IN
        IF /\ ValidateInput(object, quantity) /\ ev.err = ""
           /\ Len(log) = (IF dbVersion[p] = NoVersion THEN 0 ELSE dbVersion[p])
        THEN /\ Appended(ev)
             /\ UNCHANGED <<phase, lpc, ltx, pass>>
        ELSE /\ Fatalf(p)
             /\ UNCHANGED <<log, notify>>
    /\ UNCHANGED <<dbVersion, dbObjects, tpc, ttx, take>>
    /\ printed' = IF ValidateInput(object, quantity) THEN NoLines
                  ELSE {Line(p, "APP", "ERR CLI")}
    /\ UNCHANGED <<call, dbDir>>

\* Producer.Put: validate, encode, append unconditionally; main ends the
\* process on the error of an invalid input.
Put(p, object, quantity) ==
    /\ phase[p] \in {"startup", "listening"} /\ tpc[p] = "idle"
    /\ Len(log) < MaxLog
    /\ LET ev == Encode([Operation |-> "put", Object |-> object,
                         Quantity |-> quantity]) IN
        IF ValidateInput(object, quantity) /\ ev.err = ""
        THEN /\ Appended(ev)
             /\ UNCHANGED <<phase, lpc, ltx, pass>>
        ELSE /\ Fatalf(p)
             /\ UNCHANGED <<log, notify>>
    /\ UNCHANGED <<dbVersion, dbObjects, tpc, ttx, take>>
    /\ printed' = IF ValidateInput(object, quantity) THEN NoLines
                  ELSE {Line(p, "APP", "ERR CLI")}
    /\ UNCHANGED <<call, dbDir>>

\* --------------------------------------------------------- Producer.Take
\* Producer.Take: validate, open the transaction, read the projection
\* version and hand it to TryAppend as the assumed version.
TakeBegin(p, object, quantity) ==
    /\ phase[p] \in {"startup", "listening"} /\ tpc[p] = "idle"
    /\ Len(log) < MaxLog
    /\ IF ValidateInput(object, quantity)
       THEN LET t == NewTransaction(p) IN
            /\ ttx' = [ttx EXCEPT ![p] = ReadVersion(t)]
            /\ take' = [take EXCEPT ![p] =
                           [object |-> object, quantity |-> quantity,
                            assumedVersion |-> GetProjectionVersion(t),
                            appended |-> FALSE, resynced |-> FALSE,
                            err |-> ""]]
            /\ tpc' = [tpc EXCEPT ![p] = "transaction"]
            /\ UNCHANGED <<phase, lpc, ltx, pass>>
       ELSE /\ Fatalf(p)
            /\ UNCHANGED <<tpc, ttx, take>>
    /\ UNCHANGED <<log, notify, dbVersion, dbObjects>>
    /\ printed' = IF ValidateInput(object, quantity) THEN NoLines
                  ELSE {Line(p, "APP", "ERR CLI")}
    /\ UNCHANGED <<call, dbDir>>

\* Mutant of InsufficientQuantity: the pre-check lets one object too many pass.
InsufficientQuantityOffByOne(q, quantity) == q - quantity < -1

\* The pre-check of Take's transaction callback.
InsufficientQuantity(q, quantity) == q - quantity < 0

\* Mutant of TakeTransaction: the transaction of Take subtracts the taken
\* quantity from the projection itself.
TakeTransactionSubtracts(p) ==
    /\ tpc[p] = "transaction"
    /\ LET q == GetQuantity(ttx[p], take[p].object)
           ev == Encode([Operation |-> "take", Object |-> take[p].object,
                         Quantity |-> take[p].quantity])
           err == IF InsufficientQuantity(q, take[p].quantity)
                  THEN "ErrInsuffQuant" ELSE ev.err
       IN
        /\ ttx' = [ttx EXCEPT ![p] =
                       IF err = ""
                       THEN TxSet(ReadObject(@, take[p].object), take[p].object,
                                  q - take[p].quantity)
                       ELSE ReadObject(@, take[p].object)]
        /\ take' = [take EXCEPT ![p].err = err]
        /\ tpc' = [tpc EXCEPT ![p] = IF err = "" THEN "append" ELSE "end"]
    /\ UNCHANGED <<log, notify, phase, lpc, ltx, dbVersion, dbObjects, pass>>
    /\ printed' = NoLines
    /\ UNCHANGED <<call, dbDir>>

\* TryAppend calls the transaction callback: ErrInsuffQuant ends TryAppend,
\* otherwise the take event is built.
TakeTransaction(p) ==
    /\ tpc[p] = "transaction"
    /\ LET q == GetQuantity(ttx[p], take[p].object)
           ev == Encode([Operation |-> "take", Object |-> take[p].object,
                         Quantity |-> take[p].quantity])
           err == IF InsufficientQuantity(q, take[p].quantity)
                  THEN "ErrInsuffQuant" ELSE ev.err
       IN
        /\ ttx' = [ttx EXCEPT ![p] = ReadObject(@, take[p].object)]
        /\ take' = [take EXCEPT ![p].err = err]
        /\ tpc' = [tpc EXCEPT ![p] = IF err = "" THEN "append" ELSE "end"]
    /\ UNCHANGED <<log, notify, phase, lpc, ltx, dbVersion, dbObjects, pass>>
    /\ printed' = NoLines
    /\ UNCHANGED <<call, dbDir>>

\* TryAppend calls AppendCheck with the assumed version: the event is
\* appended, or the versions mismatch and TryAppend goes on to sync. The
\* assumed version "" of a projection that was never synchronized is not the
\* version of any log, the empty one included: a mismatch.
TakeAppendCheck(p) ==
    /\ tpc[p] = "append"
    /\ \/ /\ AppendCheckOK(log, take[p].assumedVersion)
          /\ Len(log) < MaxLog
          /\ Appended(Encode([Operation |-> "take", Object |-> take[p].object,
                               Quantity |-> take[p].quantity]))
          /\ take' = [take EXCEPT ![p].appended = TRUE]
          /\ tpc' = [tpc EXCEPT ![p] = "end"]
       \/ /\ ~AppendCheckOK(log, take[p].assumedVersion)
          /\ tpc' = [tpc EXCEPT ![p] = "sync"]
          /\ UNCHANGED <<log, notify, take>>
    /\ UNCHANGED <<phase, lpc, ltx, dbVersion, dbObjects, ttx, pass>>
    /\ printed' = NoLines
    /\ UNCHANGED <<call, dbDir>>

\* Mutant of TakeOnConflict: the result of the resync is dropped, the retry
\* assumes the version it assumed before.
TakeOnConflictKeepsVersion(p) ==
    /\ tpc[p] = "sync"
    /\ LET r == ProducerSync(ttx[p], log) IN
        /\ ttx' = [ttx EXCEPT ![p] = r.tx]
        /\ take' = [take EXCEPT ![p].resynced = TRUE,
                                ![p].err = r.err]
        /\ tpc' = [tpc EXCEPT ![p] = IF r.err = "" THEN "transaction" ELSE "end"]
    /\ UNCHANGED <<log, notify, phase, lpc, ltx, dbVersion, dbObjects, pass>>
    /\ printed' = NoLines
    /\ UNCHANGED <<call, dbDir>>

\* TryAppend calls the sync callback, Producer.Sync(ctx, t): Producer.sync
\* runs inside Take's transaction and its result is the next assumed version.
TakeOnConflict(p) ==
    /\ tpc[p] = "sync"
    /\ LET r == ProducerSync(ttx[p], log) IN
        /\ ttx' = [ttx EXCEPT ![p] = r.tx]
        /\ take' = [take EXCEPT ![p].assumedVersion = r.latestVersion,
                                ![p].resynced = TRUE,
                                ![p].err = r.err]
        /\ tpc' = [tpc EXCEPT ![p] = IF r.err = "" THEN "transaction" ELSE "end"]
    /\ UNCHANGED <<log, notify, phase, lpc, ltx, dbVersion, dbObjects, pass>>
    /\ printed' = NoLines
    /\ UNCHANGED <<call, dbDir>>

\* What Take returns: the error of TryAppend, or else of the commit.
TakeResult(p) ==
    IF take[p].err # "" THEN take[p].err
    ELSE IF CommitOK(ttx[p]) THEN "nil" ELSE "ErrConflict"

\* The end of DB.WithinTx for Take: commit when TryAppend returned nil,
\* discard otherwise. main reports ErrInsuffQuant and goes on; any other
\* error of Take ends the process.
TakeEnd(p) ==
    /\ tpc[p] = "end"
    /\ LET ok == WithinTxCommits(take[p].err, ttx[p]) IN
        /\ dbVersion' = [dbVersion EXCEPT ![p] =
                             IF ok THEN CommittedVersion(p, ttx[p]) ELSE @]
        /\ dbObjects' = [dbObjects EXCEPT ![p] =
                             IF ok THEN CommittedObjects(p, ttx[p]) ELSE @]
        /\ IF TakeResult(p) \in {"nil", "ErrInsuffQuant"}
           THEN /\ ltx' = [ltx EXCEPT ![p] =
                               IF ok THEN Outdate(@, lpc[p] # "idle", ttx[p]) ELSE @]
                /\ UNCHANGED <<phase, lpc, pass>>
           ELSE Fatalf(p)
    /\ tpc' = [tpc EXCEPT ![p] = "idle"]
    /\ ttx' = [ttx EXCEPT ![p] = NoTx]
    /\ take' = [take EXCEPT ![p] = NoTake]
    /\ UNCHANGED <<log, notify>>
    /\ printed' =
           (IF take[p].err # "" THEN {Line(p, "DB", "discarded")} ELSE NoLines)
           \cup (IF TakeResult(p) = "nil" THEN NoLines
                 ELSE IF TakeResult(p) = "ErrInsuffQuant"
                 THEN {Line(p, "APP", "ERR: can't take")}
                 ELSE {Line(p, "APP", "ERR CLI")})
    /\ UNCHANGED <<call, dbDir>>

\* ------------------------------------------------------------------ system
Next ==
    \/ \E c \in Consumers : ConsumerRunSync(c)
    \/ \E c \in Consumers : ConsumerOnUpdate(c)
    \/ \E c \in Consumers : ConsumerSyncScan(c)
    \/ \E c \in Consumers : ConsumerSyncEnd(c)
    \/ \E p \in Producers : ProducerRunSync(p)
    \/ \E p \in Producers : ProducerOnUpdate(p)
    \/ \E p \in Producers : ProducerSyncScan(p)
    \/ \E p \in Producers : ProducerSyncEnd(p)
    \/ \E p \in Producers, o \in Objects, n \in Quantities : Put(p, o, n)
    \/ \E p \in Producers, o \in Objects, n \in Quantities : TakeBegin(p, o, n)
    \/ \E p \in Producers : TakeTransaction(p)
    \/ \E p \in Producers : TakeAppendCheck(p)
    \/ \E p \in Producers : TakeOnConflict(p)
    \/ \E p \in Producers : TakeEnd(p)

Spec == Init /\ [][Next]_vars

\* Two producer instances on one log and no consumer. Producer p1 is past its
\* startup pass on the empty log and listens; the Run of producer p2 has not
\* got to its startup pass (and does not in NextConc), only its command line
\* acts, so that its projection advances by the resyncs of its Takes alone.
InitConc ==
    /\ log = <<>>
    /\ notify = [s \in Services |-> 0]
    /\ phase = [s \in Services |->
                   IF s = "p1" THEN "listening"
                   ELSE IF s = "p2" THEN "startup" ELSE "off"]
    /\ lpc = [s \in Services |-> "idle"]
    /\ ltx = [s \in Services |-> NoTx]
    /\ dbVersion = [s \in Services |-> NoVersion]
    /\ dbObjects = [s \in Services |-> NoObjects]
    /\ tpc = [p \in Producers |-> "idle"]
    /\ ttx = [p \in Producers |-> NoTx]
    /\ take = [p \in Producers |-> NoTake]
    /\ pass = [s \in Services |-> NoPass]
    /\ printed = NoLines
    /\ call = NoCall
    /\ dbDir = [s \in Services |-> InMemory]

NextConc ==
    \/ \E p \in Producers : ProducerOnUpdate(p)
    \/ \E p \in Producers : ProducerSyncScan(p)
    \/ \E p \in Producers : ProducerSyncEnd(p)
    \/ \E p \in Producers, o \in Objects, n \in Quantities : Put(p, o, n)
    \/ \E p \in Producers, o \in Objects, n \in Quantities : TakeBegin(p, o, n)
    \/ \E p \in Producers : TakeTransaction(p)
    \/ \E p \in Producers : TakeAppendCheck(p)
    \/ \E p \in Producers : TakeOnConflict(p)
    \/ \E p \in Producers : TakeEnd(p)

SpecConc == InitConc /\ [][NextConc]_vars

\* One producer and one consumer that got past their startup pass while the
\* log was empty and listen: every later append notifies both. The command
\* line issues its requests while the log is shorter than MaxLiveLog.
LivePut(p, object, quantity) == Len(log) < MaxLiveLog /\ Put(p, object, quantity)

LiveTakeBegin(p, object, quantity) ==
    Len(log) < MaxLiveLog /\ TakeBegin(p, object, quantity)

InitLive ==
    /\ log = <<>>
    /\ notify = [s \in Services |-> 0]
    /\ phase = [s \in Services |-> IF s \in {"p1", "c1"} THEN "listening" ELSE "off"]
    /\ lpc = [s \in Services |-> "idle"]
    /\ ltx = [s \in Services |-> NoTx]
    /\ dbVersion = [s \in Services |-> NoVersion]
    /\ dbObjects = [s \in Services |-> NoObjects]
    /\ tpc = [p \in Producers |-> "idle"]
    /\ ttx = [p \in Producers |-> NoTx]
    /\ take = [p \in Producers |-> NoTake]
    /\ pass = [s \in Services |-> NoPass]
    /\ printed = NoLines
    /\ call = NoCall
    /\ dbDir = [s \in Services |-> InMemory]

NextLive ==
    \/ \E c \in Consumers : ConsumerOnUpdate(c)
    \/ \E c \in Consumers : ConsumerSyncScan(c)
    \/ \E c \in Consumers : ConsumerSyncEnd(c)
    \/ \E p \in Producers : ProducerOnUpdate(p)
    \/ \E p \in Producers : ProducerSyncScan(p)
    \/ \E p \in Producers : ProducerSyncEnd(p)
    \/ \E p \in Producers, o \in Objects, n \in Quantities : LivePut(p, o, n)
    \/ \E p \in Producers, o \in Objects, n \in Quantities : LiveTakeBegin(p, o, n)
    \/ \E p \in Producers : TakeTransaction(p)
    \/ \E p \in Producers : TakeAppendCheck(p)
    \/ \E p \in Producers : TakeOnConflict(p)
    \/ \E p \in Producers : TakeEnd(p)

\* The steps of the goroutine of Run: a notification is delivered to the
\* Listen callback, an open pass goes on.
ConsumerRunning ==
    \/ \E c \in Consumers : ConsumerOnUpdate(c)
    \/ \E c \in Consumers : ConsumerSyncScan(c)
    \/ \E c \in Consumers : ConsumerSyncEnd(c)

ProducerRunning ==
    \/ \E p \in Producers : ProducerOnUpdate(p)
    \/ \E p \in Producers : ProducerSyncScan(p)
    \/ \E p \in Producers : ProducerSyncEnd(p)

\* The steps of a Take the command line has started.
TakeRunning ==
    \/ \E p \in Producers : TakeTransaction(p)
    \/ \E p \in Producers : TakeAppendCheck(p)
    \/ \E p \in Producers : TakeOnConflict(p)
    \/ \E p \in Producers : TakeEnd(p)

\* Each goroutine keeps running while it has a step to take. Nothing obliges
\* the command line to issue a Put or a Take.
Fairness ==
    /\ WF_vars(ConsumerRunning)
    /\ WF_vars(ProducerRunning)
    /\ WF_vars(TakeRunning)

SpecLive == InitLive /\ [][NextLive]_vars /\ Fairness

\* ------------------------------------------------------------ racing Takes
\* Two producers on one log: p1 listens, p2 has not got past its startup;
\* the command lines of both put and take, so that appends of the one reach
\* the log while a Take of the other is running. Requests are issued while
\* the log is shorter than MaxLiveLog.
NextTake ==
    \/ \E p \in Producers : ProducerOnUpdate(p)
    \/ \E p \in Producers : ProducerSyncScan(p)
    \/ \E p \in Producers : ProducerSyncEnd(p)
    \/ \E p \in Producers, o \in Objects, n \in Quantities : LivePut(p, o, n)
    \/ \E p \in Producers, o \in Objects, n \in Quantities : LiveTakeBegin(p, o, n)
    \/ \E p \in Producers : TakeTransaction(p)
    \/ \E p \in Producers : TakeAppendCheck(p)
    \/ \E p \in Producers : TakeOnConflict(p)
    \/ \E p \in Producers : TakeEnd(p)

\* The steps of the Take of one producer.
TakeRunningOf(p) ==
    \/ TakeTransaction(p)
    \/ TakeAppendCheck(p)
    \/ TakeOnConflict(p)
    \/ TakeEnd(p)

\* The Take of each process keeps running while it has a step to take.
FairnessTake == \A p \in Producers : WF_vars(TakeRunningOf(p))

SpecTake == InitConc /\ [][NextTake]_vars /\ FairnessTake

\* ---------------------------------------------------------------- restart
\* Mutant of Restart: the database is opened empty whatever the directory.
RestartOnEmptyDatabase(s) ==
    /\ phase[s] # "off"
    /\ phase' = [phase EXCEPT ![s] = "startup"]
    /\ notify' = [notify EXCEPT ![s] = 0]
    /\ lpc' = [lpc EXCEPT ![s] = "idle"]
    /\ ltx' = [ltx EXCEPT ![s] = NoTx]
    /\ pass' = [pass EXCEPT ![s] = NoPass]
    /\ tpc' = [p \in Producers |-> IF p = s THEN "idle" ELSE tpc[p]]
    /\ ttx' = [p \in Producers |-> IF p = s THEN NoTx ELSE ttx[p]]
    /\ take' = [p \in Producers |-> IF p = s THEN NoTake ELSE take[p]]
    /\ dbVersion' = [dbVersion EXCEPT ![s] = NoVersion]
    /\ dbObjects' = [dbObjects EXCEPT ![s] = NoObjects]
    /\ printed' = NoLines
    /\ UNCHANGED <<log, call, dbDir>>

\* The process of a service ends at any point (killed, or ended by Fatalf)
\* and main runs again: the open transactions and the subscription are gone,
\* database.Open opens the database of the directory, or a new in-memory
\* database when no directory is given, and Run starts with its Sync pass.
Restart(s) ==
    /\ phase[s] # "off"
    /\ phase' = [phase EXCEPT ![s] = "startup"]
    /\ notify' = [notify EXCEPT ![s] = 0]
    /\ lpc' = [lpc EXCEPT ![s] = "idle"]
    /\ ltx' = [ltx EXCEPT ![s] = NoTx]
    /\ pass' = [pass EXCEPT ![s] = NoPass]
    /\ tpc' = [p \in Producers |-> IF p = s THEN "idle" ELSE tpc[p]]
    /\ ttx' = [p \in Producers |-> IF p = s THEN NoTx ELSE ttx[p]]
    /\ take' = [p \in Producers |-> IF p = s THEN NoTake ELSE take[p]]
    /\ dbVersion' = [dbVersion EXCEPT ![s] =
                         IF dbDir[s] = InMemory THEN NoVersion ELSE @]
    /\ dbObjects' = [dbObjects EXCEPT ![s] =
                         IF dbDir[s] = InMemory THEN NoObjects ELSE @]
    /\ printed' = NoLines
    /\ UNCHANGED <<log, call, dbDir>>

\* Database directories of the services: none, or one of its own each.
DBDirs == {InMemory, "data"}

\* The deployment of the README, each service with or without a database
\* directory, with requests issued while the log is shorter than MaxLiveLog.
InitRestart ==
    /\ log = <<>>
    /\ notify = [s \in Services |-> 0]
    /\ phase = [s \in Services |-> IF s \in {"p1", "c1"} THEN "startup" ELSE "off"]
    /\ lpc = [s \in Services |-> "idle"]
    /\ ltx = [s \in Services |-> NoTx]
    /\ dbVersion = [s \in Services |-> NoVersion]
    /\ dbObjects = [s \in Services |-> NoObjects]
    /\ tpc = [p \in Producers |-> "idle"]
    /\ ttx = [p \in Producers |-> NoTx]
    /\ take = [p \in Producers |-> NoTake]
    /\ pass = [s \in Services |-> NoPass]
    /\ printed = NoLines
    /\ call = NoCall
    /\ dbDir \in [Services -> DBDirs]
    /\ dbDir["p2"] = InMemory

NextRestart ==
    \/ \E c \in Consumers : ConsumerRunSync(c)
    \/ \E c \in Consumers : ConsumerOnUpdate(c)
    \/ \E c \in Consumers : ConsumerSyncScan(c)
    \/ \E c \in Consumers : ConsumerSyncEnd(c)
    \/ \E p \in Producers : ProducerRunSync(p)
    \/ \E p \in Producers : ProducerOnUpdate(p)
    \/ \E p \in Producers : ProducerSyncScan(p)
    \/ \E p \in Producers : ProducerSyncEnd(p)
    \/ \E p \in Producers, o \in Objects, n \in Quantities : LivePut(p, o, n)
    \/ \E p \in Producers, o \in Objects, n \in Quantities : LiveTakeBegin(p, o, n)
    \/ \E p \in Producers : TakeTransaction(p)
    \/ \E p \in Producers : TakeAppendCheck(p)
    \/ \E p \in Producers : TakeOnConflict(p)
    \/ \E p \in Producers : TakeEnd(p)
    \/ \E s \in Services : Restart(s)

SpecRestart == InitRestart /\ [][NextRestart]_vars

\* A consumer started on a log that already holds events. The log is a
\* service of its own and stores whatever its clients appended, so the
\* events are any puts and takes, in any order.
Events ==
    [Label : {"put", "take"},
     PayloadJSON : [object : Objects, quantity : EventQuantities]]

RECURSIVE Logs(_)
Logs(n) ==
    IF n = 0 THEN {<<>>}
    ELSE LET shorter == Logs(n - 1) IN
         shorter \cup {Append(l, e) : l \in shorter, e \in Events}

InitReplay ==
    /\ log \in Logs(MaxLog)
    /\ notify = [s \in Services |-> 0]
    /\ phase = [s \in Services |-> IF s \in Consumers THEN "startup" ELSE "off"]
    /\ lpc = [s \in Services |-> "idle"]
    /\ ltx = [s \in Services |-> NoTx]
    /\ dbVersion = [s \in Services |-> NoVersion]
    /\ dbObjects = [s \in Services |-> NoObjects]
    /\ tpc = [p \in Producers |-> "idle"]
    /\ ttx = [p \in Producers |-> NoTx]
    /\ take = [p \in Producers |-> NoTake]
    /\ pass = [s \in Services |-> NoPass]
    /\ printed = NoLines
    /\ call = NoCall
    /\ dbDir = [s \in Services |-> InMemory]

NextReplay ==
    \/ \E c \in Consumers : ConsumerRunSync(c)
    \/ \E c \in Consumers : ConsumerSyncScan(c)
    \/ \E c \in Consumers : ConsumerSyncEnd(c)

SpecReplay == InitReplay /\ [][NextReplay]_vars

\* --------------------------------------------------------- Consumer.ScanDB
\* The object keys of the consumer's command print, in the byte order in
\* which a badger iterator delivers them.
ScanKeys == <<"apple", "banana", "cherry">>
ScanObjects == {ScanKeys[i] : i \in 1..Len(ScanKeys)}

\* Tx.ScanObjects over Tx.scanPrefix from the i-th key on: each stored object
\* is handed to onObject, which answers resume[object]. When onObject does
\* not resume, ScanDB's callback returns database.ErrAbortScan, Item.Value
\* returns it and scanPrefix returns it from inside its loop.
RECURSIVE ScanPrefix(_, _, _, _)
ScanPrefix(t, resume, i, delivered) ==
    IF i > Len(ScanKeys) THEN [delivered |-> delivered, err |-> ""]
    ELSE LET object == ScanKeys[i] IN
         IF object \notin DOMAIN t.objects
         THEN ScanPrefix(t, resume, i + 1, delivered)
         ELSE LET d == Append(delivered, <<object, t.objects[object]>>) IN
              IF resume[object] THEN ScanPrefix(t, resume, i + 1, d)
              ELSE [delivered |-> d, err |-> "ErrAbortScan"]

\* Consumer.ScanDB inside its read-only transaction: the version goes to
\* onVersion, which answers onVersion; then the objects are scanned.
ScanDB(t, onVersion, resume) ==
    LET v == GetProjectionVersion(t) IN
    IF ~onVersion THEN [version |-> v, delivered |-> <<>>, err |-> ""]
    ELSE LET r == ScanPrefix(t, resume, 1, <<>>) IN
         [version |-> v, delivered |-> r.delivered, err |-> r.err]

\* A call of Consumer.ScanDB with callbacks of the caller's choice; WithinTx
\* discards the transaction when ScanDB's function returned an error.
CallScanDB(c, onVersion, resume) ==
    /\ phase[c] = "listening" /\ lpc[c] = "idle"
    /\ LET r == ScanDB(NewTransaction(c), onVersion, resume) IN
        /\ call' = [fn |-> "ScanDB", arg |-> <<onVersion, resume>>, ret |-> r]
        /\ printed' = IF r.err # "" THEN {Line(c, "DB", "discarded")} ELSE NoLines
    /\ UNCHANGED <<log, notify, phase, lpc, ltx, dbVersion, dbObjects,
                   tpc, ttx, take, pass, dbDir>>

\* A consumer that synchronized at startup to a log of puts and takes of
\* several objects and listens; its command line calls ScanDB.
ScanEvents ==
    [Label : {"put", "take"},
     PayloadJSON : [object : ScanObjects, quantity : 1..MaxQty]]

RECURSIVE ScanLogs(_)
ScanLogs(n) ==
    IF n = 0 THEN {<<>>}
    ELSE LET shorter == ScanLogs(n - 1) IN
         shorter \cup {Append(l, e) : l \in shorter, e \in ScanEvents}

InitScanDB ==
    /\ log \in ScanLogs(MaxLog)
    /\ notify = [s \in Services |-> 0]
    /\ phase = [s \in Services |-> IF s \in Consumers THEN "listening" ELSE "off"]
    /\ lpc = [s \in Services |-> "idle"]
    /\ ltx = [s \in Services |-> NoTx]
    /\ dbVersion = [s \in Services |->
                       IF s \in Consumers THEN ConsumerSync(NoTx, log).tx.version
                       ELSE NoVersion]
    /\ dbObjects = [s \in Services |->
                       IF s \in Consumers THEN ConsumerSync(NoTx, log).tx.objects
                       ELSE NoObjects]
    /\ tpc = [p \in Producers |-> "idle"]
    /\ ttx = [p \in Producers |-> NoTx]
    /\ take = [p \in Producers |-> NoTake]
    /\ pass = [s \in Services |-> NoPass]
    /\ printed = NoLines
    /\ call = NoCall
    /\ dbDir = [s \in Services |-> InMemory]

NextScanDB ==
    \E c \in Consumers, onVersion \in BOOLEAN, resume \in [ScanObjects -> BOOLEAN] :
        CallScanDB(c, onVersion, resume)

SpecScanDB == InitScanDB /\ [][NextScanDB]_vars

\* ------------------------------------------------------------ codec calls
\* Labels and operation tags handed to the codec: the two known ones, their
\* spellings in other case, the empty one and unknown ones.
WireLabels == {"put", "take", "Put", "TAKE", "delete", ""}

CallDecode(label, object, quantity) ==
    /\ LET i == [Version |-> 1, Label |-> label,
                 PayloadJSON |-> [object |-> object, quantity |-> quantity]]
       IN call' = [fn |-> "Decode", arg |-> i, ret |-> Decode(i)]
    /\ printed' = NoLines
    /\ UNCHANGED <<log, notify, phase, lpc, ltx, dbVersion, dbObjects,
                   tpc, ttx, take, pass, dbDir>>

CallEncode(operation, object, quantity) ==
    /\ LET i == [Operation |-> operation, Object |-> object,
                 Quantity |-> quantity]
       IN call' = [fn |-> "Encode", arg |-> i, ret |-> Encode(i)]
    /\ printed' = NoLines
    /\ UNCHANGED <<log, notify, phase, lpc, ltx, dbVersion, dbObjects,
                   tpc, ttx, take, pass, dbDir>>

InitCodec == InitOf({})

NextCodec ==
    \/ \E label \in WireLabels, o \in ScanObjects \cup {""}, n \in Quantities :
           CallDecode(label, o, n)
    \/ \E operation \in WireLabels, o \in ScanObjects \cup {""}, n \in Quantities :
           CallEncode(operation, o, n)

SpecCodec == InitCodec /\ [][NextCodec]_vars

\* ============================================================== properties
\* The number of events of the log a version stands for: none for "" and "0".
Position(version) == IF version \in {NoVersion, VersionEmptyLog} THEN 0 ELSE version

\* The sum of the quantities of the events with this label and object among
\* the first n events of l.
RECURSIVE Total(_, _, _, _)
Total(l, n, label, object) ==
    IF n = 0 THEN 0
    ELSE Total(l, n - 1, label, object)
         + (IF l[n].Label = label /\ l[n].PayloadJSON.object = object
            THEN l[n].PayloadJSON.quantity ELSE 0)

\* The quantity of an object after the first n events of l, by the rule of
\* Aggregate Apply: put adds, take subtracts, below 1 the object is gone.
RECURSIVE Replay(_, _, _)
Replay(l, n, object) ==
    IF n = 0 THEN 0
    ELSE LET q == Replay(l, n - 1, object)
             e == l[n]
             q1 == IF e.PayloadJSON.object # object THEN q
                   ELSE IF e.Label = "put" THEN q + e.PayloadJSON.quantity
                   ELSE q - e.PayloadJSON.quantity
         IN IF q1 < 1 THEN 0 ELSE q1

\* A set of stored object keys holds exactly the replay of the first n events.
IsReplay(objects, l, n) ==
    \A o \in Objects :
        /\ (o \in DOMAIN objects) <=> (Replay(l, n, o) >= 1)
        /\ o \in DOMAIN objects => objects[o] = Replay(l, n, o)

\* A Take whose event the log has accepted and whose transaction is still open.
Accepted(p) == tpc[p] = "end" /\ take[p].appended

\* ------------------------------------------------------- storage failures
\* The error of a database operation that badger fails.
StorageError == "storage error"

\* Labels that appear in the log: a client of the shared log other than the
\* producers may append an event of a kind this program does not know.
ForeignLabels == {"delete"}

\* A pass of Consumer.Sync in which an operation of the transaction fails
\* (get, set or delete of Tx) after the events up to the k-th were applied:
\* the scan callback returns the error and client.Scan stops.
ConsumerSyncStorageFails(c, k) ==
    /\ lpc[c] = "begun"
    /\ k \in Position(GetProjectionVersion(ltx[c]))..Len(log)
    /\ LET r == ConsumerSync(ltx[c], SubSeq(log, 1, k)) IN
        /\ r.err = ""
        /\ ltx' = [ltx EXCEPT ![c] = r.tx]
        /\ pass' = [pass EXCEPT ![c].err = StorageError]
    /\ lpc' = [lpc EXCEPT ![c] = "scanned"]
    /\ UNCHANGED <<log, notify, phase, dbVersion, dbObjects, tpc, ttx, take>>
    /\ printed' = {Line(c, "DB", StorageError)}
    /\ UNCHANGED <<call, dbDir>>

\* The same failure in a pass of Producer.Sync(ctx, nil).
ProducerSyncStorageFails(p, k) ==
    /\ lpc[p] = "begun"
    /\ k \in Position(GetProjectionVersion(ltx[p]))..Len(log)
    /\ LET r == ProducerSync(ltx[p], SubSeq(log, 1, k)) IN
        /\ r.err = ""
        /\ ltx' = [ltx EXCEPT ![p] = r.tx]
        /\ pass' = [pass EXCEPT ![p].err = StorageError,
                                ![p].latestVersion = r.latestVersion]
    /\ lpc' = [lpc EXCEPT ![p] = "scanned"]
    /\ UNCHANGED <<log, notify, phase, dbVersion, dbObjects, tpc, ttx, take>>
    /\ printed' = {Line(p, "DB", StorageError)}
    /\ UNCHANGED <<call, dbDir>>

\* WithinTx of a pass whose callback returned nil and whose Commit fails.
ConsumerCommitFails(c) ==
    /\ pass[c].err = ""
    /\ ConsumerWithinTxEnd(c, FALSE)

ProducerCommitFails(p) ==
    /\ pass[p].err = ""
    /\ ProducerWithinTxEnd(p, FALSE)

\* Another client of the log appends an event of an unknown kind.
ForeignAppend(label, object, quantity) ==
    /\ Len(log) < MaxLog
    /\ Appended([Label |-> label,
                 PayloadJSON |-> [object |-> object, quantity |-> quantity]])
    /\ UNCHANGED <<phase, lpc, ltx, dbVersion, dbObjects, tpc, ttx, take, pass>>
    /\ printed' = NoLines
    /\ UNCHANGED <<call, dbDir>>

\* The services with their passes and Put as the only command, so that the
\* failures of the passes are explored in full.
NextFault ==
    \/ \E c \in Consumers : ConsumerRunSync(c)
    \/ \E c \in Consumers : ConsumerOnUpdate(c)
    \/ \E c \in Consumers : ConsumerSyncScan(c)
    \/ \E c \in Consumers : ConsumerSyncEnd(c)
    \/ \E p \in Producers : ProducerRunSync(p)
    \/ \E p \in Producers : ProducerOnUpdate(p)
    \/ \E p \in Producers : ProducerSyncScan(p)
    \/ \E p \in Producers : ProducerSyncEnd(p)
    \/ \E p \in Producers, o \in Objects, n \in Quantities : Put(p, o, n)
    \/ \E c \in Consumers, k \in 0..MaxLog : ConsumerSyncStorageFails(c, k)
    \/ \E p \in Producers, k \in 0..MaxLog : ProducerSyncStorageFails(p, k)
    \/ \E c \in Consumers : ConsumerCommitFails(c)
    \/ \E p \in Producers : ProducerCommitFails(p)
    \/ \E label \in ForeignLabels, o \in Objects :
           ForeignAppend(label, o, 1)

SpecFault == Init /\ [][NextFault]_vars

\* C1: in no prefix of the log does the quantity taken of an object exceed
\* the quantity put, however the Put, Take and Sync steps of two producers
\* interleave (so of two concurrent Takes that together exceed the stock, at
\* most one is accepted).
C1_TakenNeverExceedsPut ==
    \A n \in 0..Len(log), o \in Objects :
        Total(log, n, "take", o) <= Total(log, n, "put", o)

\* C1 witness: two Takes of one object are open at once, together they ask
\* for more than was put, one was accepted and the other one failed with
\* ErrInsuffQuant after it synchronized on the conflict.
C1_Witness ==
    \E p \in Producers, q \in Producers :
        /\ p # q
        /\ Accepted(p)
        /\ tpc[q] = "end" /\ take[q].err = "ErrInsuffQuant"
        /\ VersionKey \in ttx[q].writes
        /\ take[p].object = take[q].object
        /\ take[q].quantity <= Total(log, Len(log) - 1, "put", take[p].object)
        /\ take[p].quantity + take[q].quantity
               > Total(log, Len(log), "put", take[p].object)

\* C2 as claimed: an accepted Take read its quantity from a projection whose
\* marker equals the version the append was conditioned on, and which holds
\* every event up to that version, so that the quantity covers the request.
C2_AcceptedTakeMarkerIsAssumed ==
    \A p \in Producers :
        Accepted(p) =>
            /\ GetProjectionVersion(ttx[p]) = take[p].assumedVersion
            /\ IsReplay(ttx[p].objects, log, Position(take[p].assumedVersion))
            /\ Replay(log, Position(take[p].assumedVersion), take[p].object)
                   - take[p].quantity >= 0

\* C2 as amended: the marker equals the version the append was conditioned
\* on, or the projection was never synchronized (empty marker) and the append
\* was conditioned on the version of the empty log; the projection holds every
\* event up to that version, the accepted event is the next one of the log and
\* the quantity read covers the request.
C2_AcceptedTakeWasValidated ==
    \A p \in Producers :
        Accepted(p) =>
            LET n == Position(take[p].assumedVersion) IN
            /\ \/ GetProjectionVersion(ttx[p]) = take[p].assumedVersion
               \/ /\ GetProjectionVersion(ttx[p]) = NoVersion
                  /\ take[p].assumedVersion = VersionEmptyLog
            /\ IsReplay(ttx[p].objects, log, n)
            /\ Len(log) > n
            /\ log[n + 1] = [Label |-> "take",
                             PayloadJSON |-> [object |-> take[p].object,
                                              quantity |-> take[p].quantity]]
            /\ GetQuantity(ttx[p], take[p].object) - take[p].quantity >= 0
            /\ Replay(log, n, take[p].object) - take[p].quantity >= 0

\* C2 witness: a Take was accepted on the version its own conflict resync
\* produced, for a quantity above zero.
C2_Witness ==
    \E p \in Producers :
        /\ Accepted(p)
        /\ VersionKey \in ttx[p].writes
        /\ take[p].quantity > 0
        /\ take[p].assumedVersion = GetProjectionVersion(ttx[p])

\* C3: a Take that fails with ErrInsuffQuant, at the first pre-check or after
\* conflict resyncs, has appended no event, and no step of a Take that has
\* appended no event (its begin, pre-checks, conflicts, resyncs and the
\* discard of its transaction) changes the log or the committed projection.
C3_FailedTakeChangesNothing ==
    /\ [](\A p \in Producers : take[p].err = "ErrInsuffQuant" => ~take[p].appended)
    /\ [][\A p \in Producers :
            tpc'[p] # tpc[p] /\ ~take[p].appended /\ ~take'[p].appended
            => /\ log' = log
               /\ dbVersion'[p] = dbVersion[p]
               /\ dbObjects'[p] = dbObjects[p]]_vars

\* C3 witness: a Take failed with ErrInsuffQuant after a conflict resync wrote
\* quantities and a version into its transaction.
C3_Witness ==
    \E p \in Producers :
        /\ tpc[p] = "end" /\ take[p].err = "ErrInsuffQuant"
        /\ VersionKey \in ttx[p].writes
        /\ ttx[p].objects # dbObjects[p]

\* C4: the committed mapping of every service is the replay, once and in log
\* order, of the events up to its committed marker, and the marker is empty
\* or the version of an event of the log.
C4_ProjectionIsReplayToMarker ==
    \A s \in Services :
        /\ dbVersion[s] \in {NoVersion} \cup (1..Len(log))
        /\ IsReplay(dbObjects[s], log, Position(dbVersion[s]))

\* C4 witness: a Take committed the events of its in-transaction resync while
\* a Sync pass of the listener that scanned the same events was open.
C4_Witness ==
    \E p \in Producers :
        /\ lpc[p] = "scanned" /\ VersionKey \in ltx[p].writes
        /\ VersionKey \in ltx[p].stale
        /\ dbVersion[p] >= 2
        /\ dbObjects[p] # NoObjects

\* C5: a producer and a consumer with the same committed marker have the
\* same committed mapping.
C5_SameMarkerSameMapping ==
    \A p \in Producers, c \in Consumers :
        dbVersion[p] = dbVersion[c] => dbObjects[p] = dbObjects[c]

\* C5 witness: producer and consumer are at the same marker past a take
\* event and hold objects.
C5_Witness ==
    \E p \in Producers, c \in Consumers :
        /\ dbVersion[p] = dbVersion[c]
        /\ dbVersion[p] >= 2
        /\ \E i \in 1..dbVersion[p] :
               log[i].Label = "take" /\ log[i].PayloadJSON.quantity >= 1
        /\ dbObjects[p] # NoObjects

\* C7: a Sync pass of Run that started with the committed marker at the
\* version of the log, and ends with the log still at that version, leaves
\* the committed mapping and marker unchanged.
C7_SyncAtHeadChangesNothing ==
    [][\A s \in Services :
          lpc[s] = "scanned" /\ lpc'[s] = "idle" /\ pass[s].v = LogVersion(log)
          => dbVersion'[s] = dbVersion[s] /\ dbObjects'[s] = dbObjects[s]]_vars

\* C7 witness: a pass that started at the version of a log holding objects
\* has scanned and is about to commit.
C7_Witness ==
    \E s \in Services :
        /\ lpc[s] = "scanned" /\ pass[s].err = ""
        /\ pass[s].v = LogVersion(log)
        /\ dbObjects[s] # NoObjects

\* C8: every object key, committed or written in an open transaction, holds
\* a quantity of at least 1.
C8_StoredQuantityAtLeastOne ==
    /\ \A s \in Services :
          /\ \A o \in DOMAIN dbObjects[s] : dbObjects[s][o] >= 1
          /\ \A o \in DOMAIN ltx[s].objects : ltx[s].objects[o] >= 1
    /\ \A p \in Producers :
          \A o \in DOMAIN ttx[p].objects : ttx[p].objects[o] >= 1

\* C8 witness: the consumer applied a take that brought an object it held
\* below 1, and the object is gone.
C8_Witness ==
    \E c \in Consumers :
        /\ dbVersion[c] >= 2
        /\ LET e == log[dbVersion[c]] IN
            /\ e.Label = "take" /\ e.PayloadJSON.quantity >= 1
            /\ Replay(log, dbVersion[c] - 1, e.PayloadJSON.object) >= 1
            /\ e.PayloadJSON.object \notin DOMAIN dbObjects[c]

\* The projection one Consumer.Sync pass on log l commits, from projection proj.
AfterPass(proj, l) ==
    LET r == ConsumerSync([NoTx EXCEPT !.version = proj.version,
                                       !.objects = proj.objects], l)
    IN [version |-> r.tx.version, objects |-> r.tx.objects]

\* One pass after each of the first k appends, from the empty projection.
RECURSIVE OneAtATime(_, _)
OneAtATime(l, k) ==
    IF k = 0 THEN [version |-> NoVersion, objects |-> NoObjects]
    ELSE AfterPass(OneAtATime(l, k - 1), SubSeq(l, 1, k))

\* One pass after all appends, from the empty projection.
Batch(l) == AfterPass([version |-> NoVersion, objects |-> NoObjects], l)

\* C9: for any log, one Sync pass after each append and one pass over the
\* whole log, both from the empty projection, give the same mapping and the
\* same marker, and they are what a consumer has that synchronized to the
\* version of the log.
C9_OneAtATimeIsBatch ==
    /\ OneAtATime(log, Len(log)) = Batch(log)
    /\ \A c \in Consumers :
          dbVersion[c] = LogVersion(log) =>
              [version |-> dbVersion[c], objects |-> dbObjects[c]] = Batch(log)

\* C9 witness: the consumer is at the version of a log of several events,
\* among them a take that removed an object and a later put of it.
C9_Witness ==
    \E c \in Consumers :
        /\ Len(log) = MaxLog /\ dbVersion[c] = LogVersion(log)
        /\ \E i \in 2..Len(log) :
               /\ log[i - 1].Label = "take" /\ log[i - 1].PayloadJSON.quantity >= 1
               /\ log[i].Label = "put" /\ log[i].PayloadJSON.quantity >= 1
        /\ dbObjects[c] # NoObjects

\* C10 as claimed, for the passes that leave a version in the projection: a
\* Producer.Sync(ctx, nil) that returns without error returns the marker the
\* projection has after the pass.
C10_SyncReturnsMarker ==
    \A p \in Producers :
        /\ lpc[p] = "scanned"
        /\ WithinTxCommits(pass[p].err, ltx[p])
        /\ CommittedVersion(p, ltx[p]) # NoVersion
        => pass[p].latestVersion = CommittedVersion(p, ltx[p])

\* C11 as claimed: a call of ScanDB whose caller halts early, at onVersion or
\* at an object, returns nil, and the object at which onObject halted is the
\* last one delivered.
C11_ScanDBHaltReturnsNil ==
    call.fn = "ScanDB" =>
        LET onVersion == call.arg[1]
            resume == call.arg[2]
            d == call.ret.delivered
        IN /\ ~onVersion => call.ret.err = "" /\ d = <<>>
           /\ \A i \in 1..Len(d) : ~resume[d[i][1]] => i = Len(d)
           /\ (\E i \in 1..Len(d) : ~resume[d[i][1]]) => call.ret.err = ""

\* A pass of the listener of s ends in failure with this step: its function
\* returned an error or its commit was refused (and it is not the command
\* line that ends the process while the pass is open).
SteadyPassFails(s) ==
    /\ phase[s] = "listening" /\ lpc[s] = "scanned" /\ lpc'[s] = "idle"
    /\ phase'[s] # "exited"
    /\ ~WithinTxCommits(pass[s].err, ltx[s])

\* C12 as claimed: the step that ends a failed pass of the listener writes a
\* line about it to a logger, leaves the service listening and leaves the
\* committed marker and mapping as they were.
C12_SteadyFailureIsLogged ==
    [][\A s \in Services :
          SteadyPassFails(s) =>
              /\ \E line \in printed' : line[1] = s
              /\ phase'[s] = "listening"
              /\ dbVersion'[s] = dbVersion[s] /\ dbObjects'[s] = dbObjects[s]]_vars

\* The end of the startup pass of service s (and not the end of the process
\* by its command line).
StartupPassEnds(s) ==
    /\ phase[s] = "startup" /\ lpc[s] = "scanned" /\ lpc'[s] = "idle"
    /\ phase'[s] # "exited"

\* C13: when the Sync pass of startup fails (its callback returned an error
\* or its commit failed), Run returns without subscribing: the service never
\* listens, is never notified and runs no further pass, and its projection
\* stays as it was before startup. Only a pass without error makes the
\* service listen.
C13_StartupFailureEndsRun ==
    [][\A s \in Services :
          /\ StartupPassEnds(s) =>
                \/ /\ phase'[s] = "listening"
                   /\ pass[s].err = "" /\ CommitOK(ltx[s])
                \/ /\ phase'[s] = "crashed"
                   /\ dbVersion'[s] = dbVersion[s]
                   /\ dbObjects'[s] = dbObjects[s]
          /\ pass[s].err # "" /\ StartupPassEnds(s) => phase'[s] = "crashed"
          /\ phase[s] = "crashed" =>
                /\ phase'[s] = "crashed" /\ lpc'[s] = "idle"
                /\ notify'[s] = 0
                /\ dbVersion'[s] = dbVersion[s]
                /\ dbObjects'[s] = dbObjects[s]]_vars

\* A consumer whose startup pass failed on a log with events: it applied
\* none of them.
C13_Witness ==
    /\ phase["c1"] = "crashed" /\ phase["p1"] = "crashed"
    /\ Len(log) > 0
    /\ dbVersion["c1"] = NoVersion /\ dbObjects["c1"] = NoObjects

\* C14: Put with a valid input appends exactly one put event with that
\* object and quantity, whatever the head of the log and whatever the
\* producer's projection; it opens no transaction and leaves the projection
\* and the transactions of the producer as they are. A producer between two
\* commands can always put.
C14_PutAppendsUnconditionally ==
    [][/\ \A p \in Producers, o \in Objects, n \in Quantities :
            ValidateInput(o, n) /\ Put(p, o, n) =>
                /\ log' = Append(log, [Label |-> "put",
                                       PayloadJSON |-> [object |-> o,
                                                        quantity |-> n]])
                /\ dbVersion' = dbVersion /\ dbObjects' = dbObjects
                /\ ltx' = ltx /\ ttx' = ttx /\ take' = take
                /\ phase' = phase
       /\ \A p \in Producers :
            /\ phase[p] \in {"startup", "listening"} /\ tpc[p] = "idle"
            /\ Len(log) < MaxLog
            => \A o \in Objects, n \in EventQuantities :
                  ENABLED (Put(p, o, n) /\ Len(log') = Len(log) + 1)]_vars

\* Two puts were appended while the producer's projection holds no event:
\* the second put was made on an outdated projection.
C14_Witness ==
    /\ phase["p1"] = "listening" /\ dbVersion["p1"] = NoVersion
    /\ Len(log) = 2
    /\ \A i \in 1..2 : log[i].Label = "put"
    /\ log[2].PayloadJSON.quantity = MaxQty

\* C15: Decode fails with the unknown-kind error for every label other than
\* "put" and "take" and Encode for every operation other than these two;
\* for the two known labels Decode does not fail with that error and the
\* operation of the decoded event is the label, and Encode of the two known
\* operations gives the operation as label.
C15_UnknownKindsAreRejected ==
    /\ call.fn = "Decode" =>
          IF call.arg.Label \in {"put", "take"}
          THEN /\ call.ret.err = ""
               /\ call.ret.Operation = call.arg.Label
          ELSE call.ret.err = "unknown event type"
    /\ call.fn = "Encode" =>
          IF call.arg.Operation \in {"put", "take"}
          THEN /\ call.ret.err = ""
               /\ call.ret.Label = call.arg.Operation
          ELSE call.ret.err = "unknown event type"

\* Decode was called with the label "delete" and failed.
C15_Witness ==
    /\ call.fn = "Decode" /\ call.arg.Label = "delete"
    /\ call.ret.err = "unknown event type"

\* C16: a Take whose event the log accepted at the first attempt, without a
\* resync, commits with the stored marker and mapping of the producer
\* unchanged and goes on; the stored marker passes the version of a take
\* event only at the end of a Sync pass (of the listener, or the resync
\* inside a later Take), and the mapping stored then is the replay of the
\* events up to the new marker, in which each take is subtracted once.
C16_TakeLeavesProjectionToSync ==
    [][\A p \in Producers :
          /\ Accepted(p) /\ ~take[p].resynced /\ tpc'[p] = "idle" =>
                /\ dbVersion'[p] = dbVersion[p]
                /\ dbObjects'[p] = dbObjects[p]
                /\ phase'[p] = phase[p]
          /\ \A i \in 1..Len(log) :
                /\ log[i].Label = "take"
                /\ Position(dbVersion[p]) < i /\ Position(dbVersion'[p]) >= i
                => /\ \/ lpc[p] = "scanned" /\ lpc'[p] = "idle"
                      \/ tpc[p] = "end" /\ take[p].resynced /\ tpc'[p] = "idle"
                   /\ IsReplay(dbObjects'[p], log, Position(dbVersion'[p]))]_vars

\* The log accepted the take of a producer at the first attempt: the event
\* is the last of the log, the transaction is still open and the stored
\* mapping holds the quantity from before the take.
C16_Witness ==
    /\ Accepted("p1") /\ ~take["p1"].resynced
    /\ take["p1"].quantity >= 1
    /\ log[Len(log)].Label = "take"
    /\ Position(dbVersion["p1"]) = Len(log) - 1
    /\ "apple" \in DOMAIN dbObjects["p1"]
    /\ dbObjects["p1"]["apple"] = Replay(log, Len(log) - 1, "apple")

\* The end of a Sync pass of service s (and not the end of the process by
\* its command line).
PassEnds(s) ==
    lpc[s] = "scanned" /\ lpc'[s] = "idle" /\ phase'[s] # "exited"

\* C17: a Sync pass persists all of its writes or none. A pass that failed
\* (an operation of the database failed after any number of applied events,
\* or the commit failed) leaves the stored marker and mapping as they were;
\* a pass persists only when its callback returned no error, and then the
\* marker and mapping it wrote. So the stored mapping is always the replay
\* of the events up to the stored marker, and a retry starts from the old
\* marker and stores what a pass without the failure stores.
C17_FailedPassPersistsNothing ==
    [][\A s \in {"p1", "c1"} :
          /\ PassEnds(s) =>
                \/ /\ dbVersion'[s] = dbVersion[s]
                   /\ dbObjects'[s] = dbObjects[s]
                \/ /\ pass[s].err = ""
                   /\ dbVersion'[s] = CommittedVersion(s, ltx[s])
                   /\ dbObjects'[s] = CommittedObjects(s, ltx[s])
          /\ PassEnds(s) /\ pass[s].err # "" =>
                /\ dbVersion'[s] = dbVersion[s]
                /\ dbObjects'[s] = dbObjects[s]
          /\ IsReplay(dbObjects'[s], log', Position(dbVersion'[s]))]_vars

\* The pass of the consumer failed on a storage error after it had applied
\* events in its transaction; the consumer holds the projection of an
\* earlier pass.
C17_Witness ==
    /\ phase["c1"] = "listening" /\ lpc["c1"] = "scanned"
    /\ pass["c1"].err = StorageError
    /\ dbVersion["c1"] >= 1
    /\ ltx["c1"].version > dbVersion["c1"]
    /\ ltx["c1"].writes # {}
    /\ ltx["c1"].objects # dbObjects["c1"]

\* C18: a Sync pass that scans an event of unknown kind fails for that event
\* only: the events of known kind it scanned before are processed, so when
\* the first event after the stored marker is a put or a take, the pass
\* moves the marker at least to that event.
C18_UnknownKindAbortsOnlyItsEvent ==
    [][\A s \in {"p1", "c1"} :
          PassEnds(s) /\ pass[s].err = "unknown event type" =>
              LET first == Position(dbVersion[s]) + 1 IN
              log[first].Label \in {"put", "take"} =>
                  Position(dbVersion'[s]) >= first]_vars

\* C19: a Sync pass that reads an empty marker while the log is empty (its
\* initial version is the version of the empty log) scans no event: it
\* reads the marker only, writes nothing, returns no error, and its end
\* leaves the stored marker and mapping as they were.
C19_SyncOfEmptyLogIsNoOp ==
    [][\A s \in Services :
          /\ /\ lpc[s] = "begun" /\ lpc'[s] = "scanned"
             /\ GetProjectionVersion(ltx[s]) = NoVersion
             /\ VersionInitial(log) = VersionEmptyLog
             => /\ pass'[s].err = ""
                /\ ltx'[s].writes = {} /\ ltx'[s].reads = {VersionKey}
                /\ ltx'[s].version = NoVersion
                /\ ltx'[s].objects = ltx[s].objects
          /\ /\ PassEnds(s) /\ pass[s].err = ""
             /\ ltx[s].reads = {VersionKey} /\ ltx[s].version = NoVersion
             => /\ dbVersion'[s] = dbVersion[s]
                /\ dbObjects'[s] = dbObjects[s]
                /\ phase'[s] = "listening"]_vars

\* Both services ran their startup pass on the empty log and listen.
C19_Witness ==
    /\ log = <<>>
    /\ \A s \in {"p1", "c1"} :
          /\ phase[s] = "listening" /\ lpc[s] = "idle"
          /\ dbVersion[s] = NoVersion /\ dbObjects[s] = NoObjects

\* C20: with finitely many appends of others a Take that was started ends;
\* TryAppend ends with the event appended or with ErrInsuffQuant; the event
\* is appended only when the assumed version is the version of the log, and
\* the version a retry assumes is the one the preceding resync produced, the
\* version of the log the resync scanned.
C20_TakeTerminates ==
    /\ \A p \in Producers : (tpc[p] # "idle") ~> (tpc[p] = "idle")
    /\ [](\A p \in Producers :
             tpc[p] = "end" => take[p].appended \/ take[p].err = "ErrInsuffQuant")
    /\ [][\A p \in Producers :
             /\ tpc[p] = "sync" /\ tpc'[p] # "sync" =>
                   /\ tpc'[p] = "transaction"
                   /\ take'[p].assumedVersion = LogVersion(log)
             /\ tpc[p] \in {"transaction", "append"} /\ tpc'[p] # "idle" =>
                   take'[p].assumedVersion = take[p].assumedVersion
             /\ ~take[p].appended /\ take'[p].appended =>
                   /\ take[p].assumedVersion = LogVersion(log)
                   /\ Len(log') = Len(log) + 1]_vars

\* The log accepted the take of p1 at a retry: after the Take had read the
\* projection another append reached the log, the conditional append
\* mismatched and the resync produced the version the retry assumed.
C20_Witness ==
    /\ Accepted("p1") /\ take["p1"].resynced
    /\ take["p1"].quantity >= 1
    /\ take["p1"].assumedVersion = Len(log) - 1
    /\ Len(log) = MaxLog

\* C21: Take returns nil exactly when the log accepted its take event: a
\* Take about to return an error (the error of TryAppend, or of the commit
\* of its transaction) has appended no event, and a Take about to return
\* nil has appended one.
C21_TakeNilIffAppended ==
    \A p \in Producers :
        tpc[p] = "end" => (TakeResult(p) = "nil" <=> take[p].appended)

\* The stored marker of service s after the step is empty or the version of
\* an event of the log.
MarkerInLog(s) == dbVersion'[s] \in {NoVersion} \cup (1..Len(log'))

\* C22 as stated: in every step, restarts included, the stored marker of
\* each service stays or moves forward in log order (the empty marker comes
\* first) and is empty or the version of an event of the log.
C22_MarkerNeverMovesBack ==
    [][\A s \in Services :
          /\ MarkerInLog(s)
          /\ Position(dbVersion'[s]) >= Position(dbVersion[s])]_vars

\* C22 amended: the stored marker of each service is empty or the version of
\* an event of the log; for a service run with a database directory it
\* never moves backwards, across Sync passes, Takes, discarded transactions
\* and restarts; for a service run without one (the in-memory database) it
\* moves backwards only in a restart, which leaves it empty with an empty
\* mapping.
C22_MarkerMovesBackOnlyInMemory ==
    [][\A s \in Services :
          /\ MarkerInLog(s)
          /\ \/ Position(dbVersion'[s]) >= Position(dbVersion[s])
             \/ /\ dbDir[s] = InMemory
                /\ phase'[s] = "startup" /\ lpc'[s] = "idle"
                /\ dbVersion'[s] = NoVersion /\ dbObjects'[s] = NoObjects]_vars

\* A producer and a consumer with a database directory were restarted and
\* start again with the marker they had stored, behind the head of the log.
C22_Witness ==
    \A s \in {"p1", "c1"} :
        /\ dbDir[s] # InMemory
        /\ phase[s] = "startup" /\ lpc[s] = "idle"
        /\ dbVersion[s] >= 1 /\ dbVersion[s] < Len(log)

\* The committed projection of s is the replay of the whole log.
InSync(s) ==
    /\ Position(dbVersion[s]) = Len(log)
    /\ IsReplay(dbObjects[s], log, Len(log))

\* C6: with every notification delivered to the listener, each service that
\* keeps running ends, once the appends have stopped, with its marker at the
\* version of the log and its mapping the replay of the whole log, for good.
C6_EventuallyConsistent ==
    <>[](\A s \in {"p1", "c1"} : phase[s] = "listening" => InSync(s))

\* C6 witness: the appends have stopped, the notifications are handled, and
\* producer and consumer hold the replay of the whole log.
C6_Witness ==
    /\ Len(log) = MaxLiveLog
    /\ \A s \in {"p1", "c1"} :
          phase[s] = "listening" /\ notify[s] = 0 /\ lpc[s] = "idle" /\ InSync(s)
    /\ dbObjects["p1"] # NoObjects

====
